---- MODULE Spec2Model ----
(***************************************************************************)
(* Model of the opti-cmp-client library: the OAuth token cache             *)
(* (CMPOAuthClient), the API client (CMPClient) and the preview webhook    *)
(* handler (CMPWebhookHandler).  One handler owns one API client, which    *)
(* owns one OAuth client; webhook invocations and direct users of the      *)
(* OAuth client run concurrently and suspend only at network requests.     *)
(***************************************************************************)
EXTENDS Integers, Sequences, FiniteSets, TLC

(***************************************************************************)
(* Bounds of the model.                                                    *)
(***************************************************************************)
\* how many seconds past the first instant of interest the clock is followed
MaxLate == 2
\* number of getAccessToken() calls each direct user of the OAuth client makes
MaxCalls == 2

\* concurrent handleWebhook invocations on the one handler
Invocations == {"w1", "w2"}
\* direct users of handler.getClient().getOAuthClient()
Callers == {"d1"}
Procs == Invocations \cup Callers

\* the instants (ms) at which Date.now() is read: the start, and the seconds
\* from 3299 s on, around the expiry of a 3600 s token fetched at the start
Instants == {0} \cup {(3299 + k) * 1000 : k \in 0..MaxLate}
\* access tokens the token endpoint hands out
Tokens == {"tokA", "tokB"}
\* expires_in values (seconds) the token endpoint declares; 0 is falsy
Lifetimes == {0, 300, 3600}
\* non-success HTTP statuses of the upstream
FailureStatuses == {403, 503}

(***************************************************************************)
(* Program constants.                                                      *)
(***************************************************************************)
\* 5-minute buffer before expiration, in seconds
ExpiryBufferSeconds == 300
MsPerSecond == 1000
DefaultErrorStatus == 500
ValidationStatus == 400
SuccessStatus == 200

\* configuration of the handler under test
previewUrl == "https://preview.example.com"
apiBaseUrl == "https://api.example.com"
authServerUrl == "https://auth.example.com"
DefaultPreviewTypes == <<"default", "mobile", "desktop", "tablet", "signage">>

(***************************************************************************)
(* JavaScript values, as far as payloads need them.                        *)
(***************************************************************************)
Undefined == [t |-> "undefined"]
Null == [t |-> "null"]
Str(s) == [t |-> "string", s |-> s]
Obj(f) == [t |-> "object", f |-> f]
Arr(a) == [t |-> "array", a |-> a]

IsNullish(v) == v.t \in {"undefined", "null"}

\* v.k  (property read on a non-nullish value)
Get(v, k) ==
    IF v.t = "object" /\ k \in DOMAIN v.f THEN v.f[k] ELSE Undefined

\* v?.k
OptGet(v, k) == IF IsNullish(v) THEN Undefined ELSE Get(v, k)

\* mutant: the last entry of the array is taken
OptFirst_Last(v) ==
    IF IsNullish(v) THEN Undefined
    ELSE IF v.t = "array" /\ Len(v.a) >= 1 THEN v.a[Len(v.a)]
    ELSE Undefined

\* v?.[0]
OptFirst(v) ==
    IF IsNullish(v) THEN Undefined
    ELSE IF v.t = "array" /\ Len(v.a) >= 1 THEN v.a[1]
    ELSE Undefined

\* !v
Falsy(v) == IsNullish(v) \/ (v.t = "string" /\ v.s = "")

\* `${v}`
ToStr(v) ==
    CASE v.t = "undefined" -> "undefined"
      [] v.t = "null" -> "null"
      [] v.t = "string" -> v.s
      [] v.t = "array" -> "[array]"
      [] OTHER -> "[object Object]"

(***************************************************************************)
(* Webhook payloads.                                                       *)
(***************************************************************************)
StructuredContent(id, ver, by, hash) ==
    Obj([id |-> id, version_id |-> ver,
         content_body |-> Obj([updated_by |-> by,
                               fields_version |-> Obj([content_hash |-> hash])])])

WebhookPayload(previewId, contents) ==
    Obj([data |-> Obj([preview_id |-> previewId,
                       assets |-> Obj([structured_contents |-> Arr(contents)])])])

GoodContent == StructuredContent(Str("c1"), Str("v1"), Str("alice"), Str("h1"))
OtherContent == StructuredContent(Str("c2"), Str("v2"), Str("bob"), Str("h2"))

GoodPayload == WebhookPayload(Str("p1"), <<GoodContent>>)
TwoContentsPayload == WebhookPayload(Str("p1"), <<GoodContent, OtherContent>>)
NoHashPayload ==
    WebhookPayload(Str("p1"),
        <<Obj([id |-> Str("c1"), version_id |-> Str("v1"),
               content_body |-> Obj([updated_by |-> Str("alice"),
                                     fields_version |-> Obj(<<>>)])])>>)
EmptyIdPayload ==
    WebhookPayload(Str("p1"),
        <<StructuredContent(Str(""), Str("v1"), Str("alice"), Str("h1"))>>)
NoPreviewIdPayload ==
    Obj([data |-> Obj([assets |-> Obj([structured_contents |-> Arr(<<GoodContent>>)])])])
NoContentsPayload == WebhookPayload(Str("p2"), <<>>)
EmptyObjectPayload == Obj(<<>>)

GoodText ==
    "{\"data\":{\"preview_id\":\"p1\",\"assets\":{\"structured_contents\":[{\"id\":\"c1\",\"version_id\":\"v1\",\"content_body\":{\"updated_by\":\"alice\",\"fields_version\":{\"content_hash\":\"h1\"}}}]}}}"

\* texts that JSON.parse accepts, with the value it returns
JSONTexts == {GoodText, "{}", "null", "\"\""}
\* JSON.parse(text): the parsed value, or a SyntaxError
JSONParse(text) ==
    CASE text = GoodText -> [ok |-> TRUE, value |-> GoodPayload]
      [] text = "{}" -> [ok |-> TRUE, value |-> EmptyObjectPayload]
      [] text = "null" -> [ok |-> TRUE, value |-> Null]
      [] text = "\"\"" -> [ok |-> TRUE, value |-> Str("")]
      [] OTHER -> [ok |-> FALSE]

\* the payloads handleWebhook is called with
StringPayloads == {Str(""), Str("{\"data\":"), Str("not json"),
                   Str(GoodText), Str("{}"), Str("null")}
ObjectPayloads == {GoodPayload, TwoContentsPayload, NoHashPayload, EmptyIdPayload,
                   NoPreviewIdPayload, NoContentsPayload, EmptyObjectPayload, Null}
Payloads == StringPayloads \cup ObjectPayloads

(***************************************************************************)
(* Errors and results.                                                     *)
(***************************************************************************)
\* new CMPError(message, statusCode, details)
CMPError(message, statusCode, details) ==
    [name |-> "CMPError", isError |-> TRUE, message |-> message,
     statusCode |-> statusCode, details |-> details]
\* new CMPError(message): statusCode and details stay undefined
CMPErrorBare(message) ==
    [name |-> "CMPError", isError |-> TRUE, message |-> message]
\* reading a property of null or undefined
TypeErrorNull ==
    [name |-> "TypeError", isError |-> TRUE,
     message |-> "Cannot read properties of null"]
\* what fetch(), response.text() or response.json() may reject with
FetchFailed == [name |-> "TypeError", isError |-> TRUE, message |-> "fetch failed"]
BodySyntaxError ==
    [name |-> "SyntaxError", isError |-> TRUE, message |-> "Unexpected token"]
\* throw "boom": a thrown value that is not an Error
ThrownString == [name |-> "string", isError |-> FALSE, value |-> "boom"]
TransportErrors == {FetchFailed, ThrownString}

Returned(value) == [kind |-> "returned", value |-> value]
Threw(error) == [kind |-> "threw", error |-> error]
Pending == [kind |-> "pending"]

FailureResult(error, status) == [success |-> FALSE, error |-> error, status |-> status]
SuccessResult(data) == [success |-> TRUE, data |-> data, status |-> SuccessStatus]

(***************************************************************************)
(* Pure functions of the handler.                                          *)
(***************************************************************************)
\* the five values parseWebhookPayload extracts from a non-nullish payload
ExtractFields(p) ==
    LET data == Get(p, "data")
        structuredContent ==
            OptFirst(OptGet(OptGet(data, "assets"), "structured_contents"))
    IN [contentId |-> OptGet(structuredContent, "id"),
        versionId |-> OptGet(structuredContent, "version_id"),
        previewId |-> OptGet(data, "preview_id"),
        updatedBy |-> OptGet(OptGet(structuredContent, "content_body"), "updated_by"),
        contentHash |->
            OptGet(OptGet(OptGet(structuredContent, "content_body"),
                          "fields_version"), "content_hash")]

\* mutant: contentHash is not required
MissingRequired_NoHashCheck(x) ==
    \/ Falsy(x.contentId) \/ Falsy(x.versionId) \/ Falsy(x.previewId)
    \/ Falsy(x.updatedBy)

\* !contentId || !versionId || !previewId || !updatedBy || !contentHash
MissingRequired(x) ==
    \/ Falsy(x.contentId) \/ Falsy(x.versionId) \/ Falsy(x.previewId)
    \/ Falsy(x.updatedBy) \/ Falsy(x.contentHash)

\* the error parseWebhookPayload throws for the extracted values x
MissingFieldsError(x) ==
    CMPError("Missing required fields in webhook payload",
             ValidationStatus,
             "contentId=" \o ToStr(x.contentId)
             \o ", versionId=" \o ToStr(x.versionId)
             \o ", previewId=" \o ToStr(x.previewId)
             \o ", updatedBy=" \o ToStr(x.updatedBy)
             \o ", contentHash=" \o ToStr(x.contentHash))

\* parseWebhookPayload(payload): the PreviewRequest, or the error it throws
parseWebhookPayload(p) ==
    IF IsNullish(p) THEN Threw(TypeErrorNull)
    ELSE IF MissingRequired(ExtractFields(p))
         THEN Threw(MissingFieldsError(ExtractFields(p)))
         ELSE Returned(ExtractFields(p))

\* keyedPreviews[type] = url
Assign(f, k, v) == [x \in (DOMAIN f) \cup {k} |-> IF x = k THEN v ELSE f[x]]

RECURSIVE GenerateLoop(_, _, _)
GenerateLoop(types, contentId, keyed) ==
    IF types = <<>> THEN keyed
    ELSE GenerateLoop(Tail(types), contentId,
            Assign(keyed, Head(types),
                   previewUrl \o "/preview/" \o Head(types) \o "/" \o ToStr(contentId)))

\* mutant: the loop returns after the first preview type
generatePreviewUrls_FirstTypeOnly(types, contentId) ==
    IF types = <<>> THEN <<>>
    ELSE GenerateLoop(<<Head(types)>>, contentId, <<>>)

\* generatePreviewUrls(contentId) for the configured preview types
generatePreviewUrls(types, contentId) == GenerateLoop(types, contentId, <<>>)

\* mutant: the empty string is handed to JSON.parse like any other
ReadPayload_NoEmptyCheck(p) ==
    IF p.t = "string"
    THEN IF JSONParse(p.s).ok
         THEN [early |-> FALSE, parsedPayload |-> JSONParse(p.s).value]
         ELSE [early |-> TRUE,
               result |-> FailureResult("Invalid JSON payload", ValidationStatus)]
    ELSE [early |-> FALSE, parsedPayload |-> p]

\* the first lines of handleWebhook: a string payload is parsed as JSON
ReadPayload(p) ==
    IF p.t = "string"
    THEN IF p.s = ""
         THEN [early |-> TRUE, result |-> FailureResult("Empty payload", ValidationStatus)]
         ELSE IF JSONParse(p.s).ok
              THEN [early |-> FALSE, parsedPayload |-> JSONParse(p.s).value]
              ELSE [early |-> TRUE,
                    result |-> FailureResult("Invalid JSON payload", ValidationStatus)]
    ELSE [early |-> FALSE, parsedPayload |-> p]

\* mutant: the upstream status is dropped
StatusOrDefault_Always500(error) == DefaultErrorStatus

\* mutant: an error without status code is reported with status 200
StatusOrDefault_Default200(error) ==
    IF "statusCode" \in DOMAIN error /\ error.statusCode # 0
    THEN error.statusCode ELSE SuccessStatus

\* error.statusCode || 500
StatusOrDefault(error) ==
    IF "statusCode" \in DOMAIN error /\ error.statusCode # 0
    THEN error.statusCode ELSE DefaultErrorStatus

\* mutant: the message of an Error that is not a CMPError is not reported
Catch_MessageLost(error) ==
    IF error.name = "CMPError"
    THEN Returned(FailureResult(error.message, StatusOrDefault(error)))
    ELSE Returned(FailureResult("Unknown error", DefaultErrorStatus))

\* mutant: only CMPError is caught, anything else escapes
Catch_Rethrow(error) ==
    IF error.name = "CMPError"
    THEN Returned(FailureResult(error.message, StatusOrDefault(error)))
    ELSE Threw(error)

\* mutant: a thrown value that is not an Error escapes the catch block
Catch_RethrowUnknown(error) ==
    IF error.name = "CMPError"
    THEN Returned(FailureResult(error.message, StatusOrDefault(error)))
    ELSE IF error.isError
         THEN Returned(FailureResult(error.message, DefaultErrorStatus))
         ELSE Threw(error)

\* the catch block of handleWebhook
Catch(error) ==
    IF error.name = "CMPError"
    THEN Returned(FailureResult(error.message, StatusOrDefault(error)))
    ELSE Returned(FailureResult(IF error.isError THEN error.message ELSE "Unknown error",
                                DefaultErrorStatus))

(***************************************************************************)
(* Requests and responses.                                                 *)
(***************************************************************************)
PreviewsUrl(r) ==
    apiBaseUrl \o "/structured-content/contents/" \o ToStr(r.contentId)
    \o "/versions/" \o ToStr(r.versionId) \o "/previews/" \o ToStr(r.previewId)

TokenRequest(p, n) ==
    [proc |-> p, seq |-> n, kind |-> "token",
     url |-> authServerUrl \o "/o/oauth2/v1/token", bearer |-> "",
     body |-> [grant_type |-> "client_credentials"]]

AcknowledgeRequest(p, n, r, token) ==
    [proc |-> p, seq |-> n, kind |-> "acknowledge",
     url |-> PreviewsUrl(r) \o "/acknowledge", bearer |-> token,
     body |-> [acknowledged_by |-> r.updatedBy, content_hash |-> r.contentHash]]

\* mutant: the complete request carries an empty mapping
CompleteRequest_NoPreviews(p, n, r, token, keyed) ==
    [proc |-> p, seq |-> n, kind |-> "complete",
     url |-> PreviewsUrl(r) \o "/complete", bearer |-> token,
     body |-> [keyed_previews |-> <<>>]]

CompleteRequest(p, n, r, token, keyed) ==
    [proc |-> p, seq |-> n, kind |-> "complete",
     url |-> PreviewsUrl(r) \o "/complete", bearer |-> token,
     body |-> [keyed_previews |-> keyed]]

\* bodies of a success response of the token endpoint
TokenBodies ==
    {[access_token |-> t, expires_in |-> l, token_type |-> "Bearer"] :
        t \in Tokens, l \in Lifetimes}
    \cup {[expires_in |-> 3600, token_type |-> "Bearer"],
          [access_token |-> "tokA", token_type |-> "Bearer"],
          [access_token |-> "", expires_in |-> 3600, token_type |-> "Bearer"]}

Rejected(e) == [type |-> "rejected", error |-> e]
HttpFailure(s, text) == [type |-> "http", ok |-> FALSE, status |-> s, text |-> text]
HttpSuccess(body) == [type |-> "http", ok |-> TRUE, status |-> SuccessStatus, json |-> body]
\* a success response whose body is not JSON: response.json() throws
HttpSuccessNoJson == [type |-> "http", ok |-> TRUE, status |-> SuccessStatus]

FailureResponses ==
    {HttpFailure(s, "forbidden") : s \in FailureStatuses}
    \cup {Rejected(e) : e \in TransportErrors}
TokenResponses ==
    {HttpSuccess(b) : b \in TokenBodies} \cup {HttpSuccessNoJson} \cup FailureResponses
ApiResponses == {HttpSuccess(<<>>)} \cup FailureResponses

Summary(kind, resp) ==
    [kind |-> kind,
     http |-> (resp.type = "http"),
     ok |-> (resp.type = "http" /\ resp.ok),
     status |-> IF resp.type = "http" THEN resp.status ELSE 0]

(***************************************************************************)
(* The OAuth client's pure parts.                                          *)
(***************************************************************************)
\* mutant: the cache is never used
CacheValid_Never(cache, t) == FALSE

\* mutant: the entry still counts at the instant it expires
CacheValid_Inclusive(cache, t) == cache # Null /\ t <= cache.expiresAt

\* this.tokenCache && Date.now() < this.tokenCache.expiresAt
CacheValid(cache, t) == cache # Null /\ t < cache.expiresAt

\* hasCachedToken()
hasCachedToken(cache, t) == cache # Null /\ t < cache.expiresAt

\* mutant: access_token is only tested for presence, not for being empty
TokenBodyInvalid_TokenMayBeEmpty(data) ==
    \/ "access_token" \notin DOMAIN data
    \/ "expires_in" \notin DOMAIN data
    \/ data.expires_in = 0

\* mutant: only expires_in is required
TokenBodyInvalid_ExpiryOnly(data) ==
    \/ "expires_in" \notin DOMAIN data
    \/ data.expires_in = 0

\* !data.access_token || !data.expires_in
TokenBodyInvalid(data) ==
    \/ "access_token" \notin DOMAIN data
    \/ data.access_token = ""
    \/ "expires_in" \notin DOMAIN data
    \/ data.expires_in = 0

\* mutant: the 300-second buffer is forgotten
NewTokenCache_NoBuffer(data, t) ==
    [accessToken |-> data.access_token,
     expiresAt |-> t + data.expires_in * MsPerSecond]

\* mutant: the lifetime is added in seconds to a clock in milliseconds
NewTokenCache_Seconds(data, t) ==
    [accessToken |-> data.access_token,
     expiresAt |-> t + (data.expires_in - ExpiryBufferSeconds)]

\* the entry getAccessToken caches for a token response processed at time t
NewTokenCache(data, t) ==
    [accessToken |-> data.access_token,
     expiresAt |-> t + (data.expires_in - ExpiryBufferSeconds) * MsPerSecond]

\* mutant: the error of a refused token request carries no status
TokenOutcome_StatusLost(resp) ==
    IF resp.type = "rejected" THEN Threw(resp.error)
    ELSE IF ~resp.ok
         THEN Threw(CMPErrorBare("Failed to obtain access token"))
    ELSE IF "json" \notin DOMAIN resp THEN Threw(BodySyntaxError)
    ELSE IF TokenBodyInvalid(resp.json)
         THEN Threw(CMPErrorBare(
                 "Invalid token response: missing access_token or expires_in"))
    ELSE Returned(resp.json.access_token)

\* mutant: the error for an incomplete token body carries the response's status
TokenOutcome_InvalidWithStatus(resp) ==
    IF resp.type = "rejected" THEN Threw(resp.error)
    ELSE IF ~resp.ok
         THEN Threw(CMPError("Failed to obtain access token", resp.status, resp.text))
    ELSE IF "json" \notin DOMAIN resp THEN Threw(BodySyntaxError)
    ELSE IF TokenBodyInvalid(resp.json)
         THEN Threw(CMPError(
                 "Invalid token response: missing access_token or expires_in",
                 resp.status, ""))
    ELSE Returned(resp.json.access_token)

\* mutant: response.ok is not tested, the error body is parsed like a token body
TokenOutcome_NoOkCheck(resp) ==
    IF resp.type = "rejected" THEN Threw(resp.error)
    ELSE IF ~resp.ok
         THEN Threw(CMPErrorBare(
                 "Invalid token response: missing access_token or expires_in"))
    ELSE IF "json" \notin DOMAIN resp THEN Threw(BodySyntaxError)
    ELSE IF TokenBodyInvalid(resp.json)
         THEN Threw(CMPErrorBare(
                 "Invalid token response: missing access_token or expires_in"))
    ELSE Returned(resp.json.access_token)

\* what getAccessToken does with the response to its token request
TokenOutcome(resp) ==
    IF resp.type = "rejected" THEN Threw(resp.error)
    ELSE IF ~resp.ok
         THEN Threw(CMPError("Failed to obtain access token", resp.status, resp.text))
    ELSE IF "json" \notin DOMAIN resp THEN Threw(BodySyntaxError)
    ELSE IF TokenBodyInvalid(resp.json)
         THEN Threw(CMPErrorBare(
                 "Invalid token response: missing access_token or expires_in"))
    ELSE Returned(resp.json.access_token)

\* mutant: the body text of a refused request is not read
ApiOutcome_NoBodyText(message, resp) ==
    IF resp.type = "rejected" THEN Threw(resp.error)
    ELSE IF ~resp.ok THEN Threw(CMPError(message, resp.status, ""))
    ELSE Returned(Undefined)

\* mutant: submitPreviewCompletion reports the message of acknowledgePreview
ApiOutcome_AcknowledgeMessage(message, resp) ==
    IF resp.type = "rejected" THEN Threw(resp.error)
    ELSE IF ~resp.ok
         THEN Threw(CMPError("Failed to acknowledge preview", resp.status, resp.text))
    ELSE Returned(Undefined)

\* mutant: the response.ok test is forgotten
ApiOutcome_IgnoreStatus(message, resp) ==
    IF resp.type = "rejected" THEN Threw(resp.error) ELSE Returned(Undefined)

\* what acknowledgePreview / submitPreviewCompletion do with their response
ApiOutcome(message, resp) ==
    IF resp.type = "rejected" THEN Threw(resp.error)
    ELSE IF ~resp.ok THEN Threw(CMPError(message, resp.status, resp.text))
    ELSE Returned(Undefined)

(***************************************************************************)
(* Construction.                                                           *)
(***************************************************************************)
\* the configuration of the handler under test
ValidConfig ==
    [clientId |-> "id", clientSecret |-> "secret", authServerUrl |-> authServerUrl,
     apiBaseUrl |-> apiBaseUrl, previewUrl |-> previewUrl]

\* preview types a configuration may name instead of the default ones
CustomPreviewTypes == {<<"mobile", "mobile", "web">>, <<>>}

\* the configuration objects a constructor is called with: each required
\* string present or empty, previewTypes absent or given
Configs ==
    LET Required ==
            [clientId : {"", "id"}, clientSecret : {"", "secret"},
             authServerUrl : {"", authServerUrl}, apiBaseUrl : {"", apiBaseUrl},
             previewUrl : {"", previewUrl}]
    IN Required
       \cup {[x \in DOMAIN c \cup {"previewTypes"} |->
                 IF x = "previewTypes" THEN t ELSE c[x]] :
             c \in Required, t \in CustomPreviewTypes}

\* new Error('<name> is required')
RequiredError(name) ==
    [name |-> "Error", isError |-> TRUE, message |-> name \o " is required"]

\* mutant: clientSecret is not checked
NewCMPOAuthClient_NoSecretCheck(cfg) ==
    IF cfg.clientId = "" THEN Threw(RequiredError("clientId"))
    ELSE IF cfg.authServerUrl = "" THEN Threw(RequiredError("authServerUrl"))
    ELSE Returned([tokenCache |-> Null])

\* new CMPOAuthClient(cfg)
NewCMPOAuthClient(cfg) ==
    IF cfg.clientId = "" THEN Threw(RequiredError("clientId"))
    ELSE IF cfg.clientSecret = "" THEN Threw(RequiredError("clientSecret"))
    ELSE IF cfg.authServerUrl = "" THEN Threw(RequiredError("authServerUrl"))
    ELSE Returned([tokenCache |-> Null])

\* new CMPClient(cfg)
NewCMPClient(cfg) ==
    IF cfg.apiBaseUrl = "" THEN Threw(RequiredError("apiBaseUrl"))
    ELSE LET o == NewCMPOAuthClient([clientId |-> cfg.clientId,
                                     clientSecret |-> cfg.clientSecret,
                                     authServerUrl |-> cfg.authServerUrl])
         IN IF o.kind = "threw" THEN o
            ELSE Returned([oauthClient |-> o.value])

\* new CMPWebhookHandler(cfg)
NewCMPWebhookHandler(cfg) ==
    IF cfg.previewUrl = "" THEN Threw(RequiredError("previewUrl"))
    ELSE LET c == NewCMPClient([clientId |-> cfg.clientId,
                                clientSecret |-> cfg.clientSecret,
                                authServerUrl |-> cfg.authServerUrl,
                                apiBaseUrl |-> cfg.apiBaseUrl])
         IN IF c.kind = "threw" THEN c
            ELSE Returned([client |-> c.value,
                           previewTypes |-> IF "previewTypes" \in DOMAIN cfg
                                            THEN cfg.previewTypes
                                            ELSE DefaultPreviewTypes])

(***************************************************************************)
(* State.                                                                  *)
(***************************************************************************)
VARIABLES
    config,         \* the configuration object handed to the constructor
    built,          \* which class was constructed, and what the constructor did
    urls,           \* the generatePreviewUrls() calls made directly, in order
    previewTypes,   \* this.previewTypes of the handler
    tokenCache,     \* this.tokenCache of the OAuth client: Null or an entry
    now,            \* Date.now(), in ms
    pc,             \* where each invocation / caller is suspended
    payload,        \* the argument of each handleWebhook invocation
    previewRequest, \* local previewRequest of each invocation
    accessToken,    \* local accessToken of the client call of each invocation
    keyedPreviews,  \* local keyedPreviews of each invocation
    outcome,        \* what each call has returned or thrown
    net,            \* the requests in flight
    sent,           \* per process, the requests it has sent, in order
    replies,        \* per invocation, the responses it has received, in order
    calls,          \* per process, the getAccessToken() calls it has started
    cleared,        \* clearCache() ran and no getAccessToken() has started since
    lastFetch,      \* when tokenCache was written, and with which expires_in
    mine            \* per caller: tokenCache is the entry its latest call wrote

vars == <<config, built, urls, previewTypes, tokenCache, now, pc, payload, previewRequest,
          accessToken, keyedPreviews, outcome, net, sent, replies, calls, cleared,
          lastFetch, mine>>

\* config.previewTypes || [...]
ConfiguredPreviewTypes == {DefaultPreviewTypes}

Init ==
    /\ config = ValidConfig
    /\ built = [class |-> "CMPWebhookHandler",
                outcome |-> NewCMPWebhookHandler(ValidConfig)]
    /\ urls = <<>>
    /\ previewTypes \in ConfiguredPreviewTypes
    /\ tokenCache = Null
    /\ now = 0
    /\ pc = [p \in Procs |-> "idle"]
    /\ payload = [w \in Invocations |-> Undefined]
    /\ previewRequest = [w \in Invocations |-> Undefined]
    /\ accessToken = [w \in Invocations |-> ""]
    /\ keyedPreviews = [w \in Invocations |-> <<>>]
    /\ outcome = [p \in Procs |-> Pending]
    /\ net = {}
    /\ sent = [p \in Procs |-> <<>>]
    /\ replies = [w \in Invocations |-> <<>>]
    /\ calls = [p \in Procs |-> 0]
    /\ cleared = FALSE
    /\ lastFetch = Null
    /\ mine = [d \in Callers |-> FALSE]

InFlight(p) == {r \in net : r.proc = p}

\* the call of p sends request r and suspends at pcWait
Send(p, r, pcWait) ==
    /\ net' = net \cup {r}
    /\ sent' = [sent EXCEPT ![p] = Append(@, r)]
    /\ pc' = [pc EXCEPT ![p] = pcWait]

\* the response to the request of the given kind that p has in flight arrives
Receive(p, kind, resp) ==
    /\ \E r \in InFlight(p) : r.kind = kind /\ net' = net \ {r}
    /\ replies' = IF p \in Invocations
                  THEN [replies EXCEPT ![p] = Append(@, Summary(kind, resp))]
                  ELSE replies

\* handleWebhook of w ends with outcome o
Finish(w, o) ==
    /\ outcome' = [outcome EXCEPT ![w] = o]
    /\ pc' = [pc EXCEPT ![w] = "done"]

\* mutant: a call that finds a token request already in flight waits for that
\* one instead of sending its own
GetAccessTokenStart_SingleFlight(w, pcGot, pcWait) ==
    /\ calls' = [calls EXCEPT ![w] = @ + 1]
    /\ cleared' = FALSE
    /\ IF CacheValid(tokenCache, now)
       THEN /\ accessToken' = [accessToken EXCEPT ![w] = tokenCache.accessToken]
            /\ pc' = [pc EXCEPT ![w] = pcGot]
            /\ UNCHANGED <<net, sent>>
       ELSE IF \E r \in net : r.kind = "token"
       THEN /\ pc' = [pc EXCEPT ![w] = pcWait]
            /\ UNCHANGED <<net, sent, accessToken>>
       ELSE /\ Send(w, TokenRequest(w, Len(sent[w]) + 1), pcWait)
            /\ UNCHANGED accessToken

\* mutant: getAccessToken never looks at the cache
GetAccessTokenStart_AlwaysFetch(w, pcGot, pcWait) ==
    /\ calls' = [calls EXCEPT ![w] = @ + 1]
    /\ cleared' = FALSE
    /\ Send(w, TokenRequest(w, Len(sent[w]) + 1), pcWait)
    /\ UNCHANGED accessToken

\* the synchronous start of getAccessToken() inside a client call of invocation w:
\* a valid cache entry is returned, otherwise the token request goes out
GetAccessTokenStart(w, pcGot, pcWait) ==
    /\ calls' = [calls EXCEPT ![w] = @ + 1]
    /\ cleared' = FALSE
    /\ IF CacheValid(tokenCache, now)
       THEN /\ accessToken' = [accessToken EXCEPT ![w] = tokenCache.accessToken]
            /\ pc' = [pc EXCEPT ![w] = pcGot]
            /\ UNCHANGED <<net, sent>>
       ELSE /\ Send(w, TokenRequest(w, Len(sent[w]) + 1), pcWait)
            /\ UNCHANGED accessToken

(***************************************************************************)
(* handleWebhook, step by step.                                            *)
(***************************************************************************)
\* handleWebhook(p) is called: read and validate the payload, then enter
\* acknowledgePreview up to its first suspension
HandleWebhook(w, p) ==
    /\ pc[w] = "idle"
    /\ payload' = [payload EXCEPT ![w] = p]
    /\ LET rd == ReadPayload(p) IN
       IF rd.early
       THEN /\ Finish(w, Returned(rd.result))
            /\ UNCHANGED <<previewRequest, accessToken, net, sent, calls, cleared>>
       ELSE LET pr == parseWebhookPayload(rd.parsedPayload) IN
            IF pr.kind = "threw"
            THEN /\ Finish(w, Catch(pr.error))
                 /\ UNCHANGED <<previewRequest, accessToken, net, sent, calls, cleared>>
            ELSE /\ previewRequest' = [previewRequest EXCEPT ![w] = pr.value]
                 /\ GetAccessTokenStart(w, "ackGotToken", "ackToken")
                 /\ UNCHANGED outcome
    /\ UNCHANGED <<config, built, urls, previewTypes, tokenCache, now, keyedPreviews,
                   replies, lastFetch, mine>>

\* the response to a token request arrives: the rest of getAccessToken, and
\* the continuation of whoever awaited it
TokenResponse(p, resp) ==
    /\ pc[p] \in {"ackToken", "completeToken", "directToken"}
    /\ Receive(p, "token", resp)
    /\ LET o == TokenOutcome(resp) IN
       /\ IF o.kind = "returned"
          THEN /\ tokenCache' = NewTokenCache(resp.json, now)
               /\ lastFetch' = [at |-> now, expires_in |-> resp.json.expires_in]
               /\ mine' = [d \in Callers |-> d = p]
          ELSE UNCHANGED <<tokenCache, lastFetch, mine>>
       /\ IF p \in Callers
          THEN /\ outcome' = [outcome EXCEPT ![p] = o]
               /\ pc' = [pc EXCEPT ![p] = "idle"]
               /\ UNCHANGED accessToken
          ELSE IF o.kind = "returned"
          THEN /\ accessToken' = [accessToken EXCEPT ![p] = o.value]
               /\ pc' = [pc EXCEPT ![p] = IF pc[p] = "ackToken" THEN "ackGotToken"
                                           ELSE "completeGotToken"]
               /\ UNCHANGED outcome
          ELSE /\ Finish(p, Catch(o.error))
               /\ UNCHANGED accessToken
    /\ UNCHANGED <<config, built, urls, previewTypes, now, payload, previewRequest,
                   keyedPreviews, sent, calls, cleared>>

\* acknowledgePreview resumes with its token and sends the acknowledge request
AcknowledgeSend(w) ==
    /\ pc[w] = "ackGotToken"
    /\ Send(w, AcknowledgeRequest(w, Len(sent[w]) + 1, previewRequest[w],
                                  accessToken[w]), "ackWait")
    /\ UNCHANGED <<config, built, urls, previewTypes, tokenCache, now, payload,
                   previewRequest, accessToken, keyedPreviews, outcome, replies,
                   calls, cleared, lastFetch, mine>>

\* the response to the acknowledge request arrives
AcknowledgeResponse(w, resp) ==
    /\ pc[w] = "ackWait"
    /\ Receive(w, "acknowledge", resp)
    /\ LET o == ApiOutcome("Failed to acknowledge preview", resp) IN
       IF o.kind = "threw"
       THEN Finish(w, Catch(o.error))
       ELSE /\ pc' = [pc EXCEPT ![w] = "acknowledged"]
            /\ UNCHANGED outcome
    /\ UNCHANGED <<config, built, urls, previewTypes, tokenCache, now, payload,
                   previewRequest, accessToken, keyedPreviews, sent, calls,
                   cleared, lastFetch, mine>>

\* handleWebhook resumes after the acknowledgment: generate the preview URLs
\* and enter submitPreviewCompletion up to its first suspension
SubmitCompletion(w) ==
    /\ pc[w] = "acknowledged"
    /\ keyedPreviews' = [keyedPreviews EXCEPT ![w] =
           generatePreviewUrls(previewTypes, previewRequest[w].contentId)]
    /\ GetAccessTokenStart(w, "completeGotToken", "completeToken")
    /\ UNCHANGED <<config, built, urls, previewTypes, tokenCache, now, payload,
                   previewRequest, outcome, replies, lastFetch, mine>>

\* submitPreviewCompletion resumes with its token and sends the complete request
CompleteSend(w) ==
    /\ pc[w] = "completeGotToken"
    /\ Send(w, CompleteRequest(w, Len(sent[w]) + 1, previewRequest[w],
                               accessToken[w], keyedPreviews[w]), "completeWait")
    /\ UNCHANGED <<config, built, urls, previewTypes, tokenCache, now, payload,
                   previewRequest, accessToken, keyedPreviews, outcome, replies,
                   calls, cleared, lastFetch, mine>>

\* the response to the complete request arrives; handleWebhook returns
CompleteResponse(w, resp) ==
    /\ pc[w] = "completeWait"
    /\ Receive(w, "complete", resp)
    /\ LET o == ApiOutcome("Failed to submit preview completion", resp) IN
       IF o.kind = "threw"
       THEN Finish(w, Catch(o.error))
       ELSE Finish(w, Returned(SuccessResult(
                [contentId |-> previewRequest[w].contentId,
                 versionId |-> previewRequest[w].versionId,
                 previewId |-> previewRequest[w].previewId,
                 keyedPreviews |-> keyedPreviews[w]])))
    /\ UNCHANGED <<config, built, urls, previewTypes, tokenCache, now, payload,
                   previewRequest, accessToken, keyedPreviews, sent, calls,
                   cleared, lastFetch, mine>>

(***************************************************************************)
(* Direct use of the OAuth client, and the clock.                          *)
(***************************************************************************)
\* oauthClient.getAccessToken() called directly by d
GetAccessTokenCall(d) ==
    /\ pc[d] = "idle"
    /\ calls[d] < MaxCalls
    /\ calls' = [calls EXCEPT ![d] = @ + 1]
    /\ cleared' = FALSE
    /\ IF CacheValid(tokenCache, now)
       THEN /\ outcome' = [outcome EXCEPT ![d] = Returned(tokenCache.accessToken)]
            /\ UNCHANGED <<pc, net, sent>>
       ELSE /\ Send(d, TokenRequest(d, Len(sent[d]) + 1), "directToken")
            /\ outcome' = [outcome EXCEPT ![d] = Pending]
    /\ UNCHANGED <<config, built, urls, previewTypes, tokenCache, now, payload,
                   previewRequest, accessToken, keyedPreviews, replies, lastFetch, mine>>

\* oauthClient.clearCache()
ClearCache ==
    /\ tokenCache' = Null
    /\ cleared' = TRUE
    /\ lastFetch' = Null
    /\ mine' = [d \in Callers |-> FALSE]
    /\ UNCHANGED <<config, built, urls, previewTypes, now, pc, payload, previewRequest, accessToken,
                   keyedPreviews, outcome, net, sent, replies, calls>>

\* Date.now() advances to a later instant
Tick(t) ==
    /\ t > now
    /\ now' = t
    /\ UNCHANGED <<config, built, urls, previewTypes, tokenCache, pc, payload, previewRequest,
                   accessToken, keyedPreviews, outcome, net, sent, replies, calls,
                   cleared, lastFetch, mine>>

\* the invocations that run in the sequential specification
Sequential == {"w1"}

Next ==
    \/ \E w \in Sequential, p \in Payloads : HandleWebhook(w, p)
    \/ \E p \in Procs, resp \in TokenResponses : TokenResponse(p, resp)
    \/ \E w \in Sequential : AcknowledgeSend(w)
    \/ \E w \in Sequential, resp \in ApiResponses : AcknowledgeResponse(w, resp)
    \/ \E w \in Sequential : SubmitCompletion(w)
    \/ \E w \in Sequential : CompleteSend(w)
    \/ \E w \in Sequential, resp \in ApiResponses : CompleteResponse(w, resp)
    \/ \E d \in Callers : GetAccessTokenCall(d)
    \/ ClearCache
    \/ \E t \in Instants : Tick(t)

Spec == Init /\ [][Next]_vars

(***************************************************************************)
(* Helpers for the properties.                                             *)
(***************************************************************************)
Range(q) == {q[i] : i \in DOMAIN q}
Kinds(q) == {x.kind : x \in Range(q)}
Last(q) == q[Len(q)]
IsTokenWait(l) == l \in {"ackToken", "completeToken", "directToken"}

\* the well-formed payloads of the model and the ids they carry
WellFormed == {GoodPayload, TwoContentsPayload, Str(GoodText)}

C2_StrictOrder ==
    \A w \in Invocations :
        /\ Cardinality(InFlight(w)) <= 1
        /\ \A i \in DOMAIN sent[w] :
              /\ sent[w][i].kind = "acknowledge" =>
                    /\ payload[w] \in WellFormed
                    /\ sent[w][i].bearer \in Tokens
                    /\ \A j \in DOMAIN sent[w] : sent[w][j].kind = "complete" => i < j
              /\ sent[w][i].kind = "complete" =>
                    /\ sent[w][i].bearer \in Tokens
                    /\ \E j \in DOMAIN sent[w] : j < i /\ sent[w][j].kind = "acknowledge"
                    /\ \E k \in DOMAIN replies[w] :
                          replies[w][k].kind = "acknowledge" /\ replies[w][k].ok
                    /\ \A r \in InFlight(w) : r.kind # "acknowledge"

\* a complete request is in flight
C2_Witness == \E r \in net : r.kind = "complete"

(***************************************************************************)
(* C3: when the acknowledge endpoint answers with a non-success status s,  *)
(* handleWebhook returns {success: false, status: s, error: "Failed to     *)
(* acknowledge preview"} and submitPreviewCompletion is not invoked: no    *)
(* preview URLs are generated, no second token is asked for and no         *)
(* complete request is sent.                                               *)
(***************************************************************************)
C3_AcknowledgeRefused ==
    \A w \in Invocations :
        (/\ replies[w] # <<>>
         /\ \E k \in DOMAIN replies[w] :
               /\ replies[w][k].kind = "acknowledge"
               /\ replies[w][k].http
               /\ ~replies[w][k].ok)
        => /\ pc[w] = "done"
           /\ Last(replies[w]).kind = "acknowledge"
           /\ outcome[w] = Returned([success |-> FALSE,
                                     status |-> Last(replies[w]).status,
                                     error |-> "Failed to acknowledge preview"])
           /\ "complete" \notin Kinds(sent[w])
           /\ keyedPreviews[w] = <<>>
           /\ calls[w] = 1

\* the acknowledge endpoint has answered 403
C3_Witness ==
    \E w \in Invocations :
        /\ replies[w] # <<>>
        /\ Last(replies[w]) = [kind |-> "acknowledge", http |-> TRUE, ok |-> FALSE,
                               status |-> 403]

(***************************************************************************)
(* C4: a well-formed payload whose token, acknowledge and complete         *)
(* requests all succeed yields {success: true, status: 200, data} where    *)
(* data holds the three ids of the payload and exactly the keyedPreviews   *)
(* mapping sent in the complete request; and a success result is returned  *)
(* only if both the acknowledge and the complete request got a success     *)
(* response.                                                               *)
(***************************************************************************)
C4_SuccessResult ==
    \A w \in Invocations :
        /\ (/\ replies[w] # <<>>
            /\ Last(replies[w]).kind = "complete"
            /\ Last(replies[w]).ok)
           => /\ pc[w] = "done"
              /\ payload[w] \in WellFormed
              /\ outcome[w].kind = "returned"
              /\ outcome[w].value.success
              /\ outcome[w].value.status = 200
              /\ outcome[w].value.data.contentId = Str("c1")
              /\ outcome[w].value.data.versionId = Str("v1")
              /\ outcome[w].value.data.previewId = Str("p1")
              /\ outcome[w].value.data.keyedPreviews
                    = Last(sent[w]).body.keyed_previews
              /\ Last(sent[w]).kind = "complete"
              /\ DOMAIN outcome[w].value.data.keyedPreviews = Range(previewTypes)
        /\ (outcome[w].kind = "returned" /\ outcome[w].value.success)
           => /\ \E k \in DOMAIN replies[w] :
                    replies[w][k].kind = "acknowledge" /\ replies[w][k].ok
              /\ Last(replies[w]).kind = "complete"
              /\ Last(replies[w]).ok

\* an invocation has returned a success result
C4_Witness ==
    \E w \in Invocations :
        /\ outcome[w].kind = "returned"
        /\ outcome[w].value.success

(***************************************************************************)
(* C5: token caching.  When a caller starts a getAccessToken() call while  *)
(* the cache still holds the entry its previous call fetched and           *)
(* now < expiresAt of that entry, the new call sends no token request (so  *)
(* the two calls issue exactly one request in total) and returns the same  *)
(* token as the previous call.                                             *)
(***************************************************************************)
C5_TokenCaching ==
    [][\A d \in Callers :
          (/\ calls'[d] = calls[d] + 1
           /\ calls[d] >= 1
           /\ mine[d]
           /\ tokenCache # Null
           /\ now < tokenCache.expiresAt)
          => /\ sent'[d] = sent[d]
             /\ net' = net
             /\ calls[d] = 1 => Len(sent'[d]) = 1
             /\ outcome[d].kind = "returned"
             /\ outcome'[d] = outcome[d]
             /\ outcome'[d].value = tokenCache.accessToken]_vars

\* a caller has made two calls, nobody else has asked for a token, and only
\* one token request was sent
C5_Witness ==
    \E d \in Callers :
        /\ calls[d] = 2
        /\ \A w \in Invocations : calls[w] = 0
        /\ Len(sent[d]) = 1
        /\ pc[d] = "idle"
        /\ mine[d]
        /\ outcome[d].kind = "returned"

(***************************************************************************)
(* C6: after clearCache() has run, the next getAccessToken() call that     *)
(* starts always sends a fresh token request and never returns a cached    *)
(* token, also when another getAccessToken() call was suspended at its     *)
(* token request while clearCache() ran.                                   *)
(***************************************************************************)
C6_FreshAfterClear ==
    [][\A p \in Procs :
          (cleared /\ calls'[p] = calls[p] + 1)
          => \E r \in net' \ net : r.proc = p /\ r.kind = "token"]_vars

(***************************************************************************)
(* C7: expiry boundary.  After a token response with expires_in = L was    *)
(* cached at time T (and no later fetch or clear), hasCachedToken() is     *)
(* true at every time before T + (L - 300) s and false from then on; for   *)
(* L = 3600 it is true at T + 3299 s and false at T + 3301 s.              *)
(***************************************************************************)
C7_ExpiryBoundary ==
    lastFetch # Null =>
        /\ hasCachedToken(tokenCache, now)
              <=> now < lastFetch.at + (lastFetch.expires_in - 300) * 1000
        /\ lastFetch.expires_in = 3600 =>
              /\ now = lastFetch.at + 3299 * 1000 => hasCachedToken(tokenCache, now)
              /\ now = lastFetch.at + 3301 * 1000 => ~hasCachedToken(tokenCache, now)

\* 3301 s after a 3600 s token was cached
C7_Witness ==
    /\ lastFetch # Null
    /\ lastFetch.expires_in = 3600
    /\ now = lastFetch.at + 3301 * 1000
    /\ tokenCache # Null

(***************************************************************************)
(* C8: a getAccessToken() call is served from the cache exactly when       *)
(* hasCachedToken() is true at the moment of the call: then it sends no    *)
(* request and yields the cached token; otherwise (no entry, or            *)
(* now >= expiresAt) it sends a token request, yields nothing until the    *)
(* response has arrived, and then yields the token of the entry that       *)
(* response wrote, never the stale one.                                    *)
(***************************************************************************)
C8_CacheDecides ==
    [][\A p \in Procs :
          /\ calls'[p] = calls[p] + 1 =>
                IF hasCachedToken(tokenCache, now)
                THEN /\ net' = net
                     /\ sent' = sent
                     /\ ~IsTokenWait(pc'[p])
                     /\ p \in Callers =>
                           outcome'[p] = Returned(tokenCache.accessToken)
                     /\ p \in Invocations =>
                           accessToken'[p] = tokenCache.accessToken
                ELSE /\ \E r \in net' \ net : r.proc = p /\ r.kind = "token"
                     /\ IsTokenWait(pc'[p])
                     /\ p \in Callers => outcome'[p] = Pending
                     /\ p \in Invocations => accessToken'[p] = accessToken[p]
          /\ (IsTokenWait(pc[p]) /\ ~IsTokenWait(pc'[p]) /\ pc'[p] # "done"
              /\ (p \in Callers => outcome'[p].kind = "returned"))
             => /\ tokenCache' # Null
                /\ lastFetch' # Null
                /\ lastFetch'.at = now
                /\ p \in Callers => outcome'[p].value = tokenCache'.accessToken
                /\ p \in Invocations => accessToken'[p] = tokenCache'.accessToken]_vars

\* a direct call was served from the cache without any request
C8_Witness ==
    \E d \in Callers :
        /\ calls[d] = 1
        /\ sent[d] = <<>>
        /\ outcome[d].kind = "returned"

(***************************************************************************)
(* C9: handleWebhook("") returns {success: false, status: 400, error:      *)
(* "Empty payload"}, and handleWebhook of a non-empty string that is not   *)
(* JSON returns {success: false, status: 400, error: "Invalid JSON         *)
(* payload"}; in both cases no token, acknowledge or complete request is   *)
(* issued, then or later, and the token cache is left unchanged.           *)
(***************************************************************************)
NotJson == {"{\"data\":", "not json"}

C9_BadStrings ==
    [][\A w \in Invocations :
          /\ (pc[w] = "idle" /\ pc'[w] # "idle"
              /\ payload'[w] \in {Str("")} \cup {Str(t) : t \in NotJson})
             => /\ outcome'[w] = Returned(
                       [success |-> FALSE, status |-> 400,
                        error |-> IF payload'[w] = Str("") THEN "Empty payload"
                                  ELSE "Invalid JSON payload"])
                /\ pc'[w] = "done"
                /\ net' = net
                /\ sent' = sent
                /\ calls' = calls
                /\ tokenCache' = tokenCache
          /\ pc[w] = "done"
             => /\ pc'[w] = "done"
                /\ sent'[w] = sent[w]
                /\ outcome'[w] = outcome[w]]_vars

\* handleWebhook was called with a string that is not JSON
C9_Witness ==
    \E w \in Invocations :
        /\ pc[w] = "done"
        /\ payload[w] \in {Str(t) : t \in NotJson}

\* handleWebhook was called with the empty string
C9_WitnessEmpty ==
    \E w \in Invocations : pc[w] = "done" /\ payload[w] = Str("")

(***************************************************************************)
(* C10: the payloads lacking one of the five required values, with the     *)
(* text that echoes the five extracted values.                             *)
(***************************************************************************)
Incomplete == {NoHashPayload, EmptyIdPayload, NoPreviewIdPayload, NoContentsPayload,
               EmptyObjectPayload, Str("{}")}

\* the value handleWebhook hands to parseWebhookPayload
Handed(p) == IF p = Str("{}") THEN EmptyObjectPayload
             ELSE IF p = Str(GoodText) THEN GoodPayload ELSE p

Echo(p) ==
    CASE p = NoHashPayload ->
           "contentId=c1, versionId=v1, previewId=p1, updatedBy=alice, contentHash=undefined"
      [] p = EmptyIdPayload ->
           "contentId=, versionId=v1, previewId=p1, updatedBy=alice, contentHash=h1"
      [] p = NoPreviewIdPayload ->
           "contentId=c1, versionId=v1, previewId=undefined, updatedBy=alice, contentHash=h1"
      [] p = NoContentsPayload ->
           "contentId=undefined, versionId=undefined, previewId=p2, updatedBy=undefined, contentHash=undefined"
      [] OTHER ->
           "contentId=undefined, versionId=undefined, previewId=undefined, updatedBy=undefined, contentHash=undefined"

\* for a well-formed payload parseWebhookPayload returns five non-empty values,
\* which handleWebhook keeps as its previewRequest
CompleteRequestOf(w) ==
    /\ parseWebhookPayload(Handed(payload[w])).kind = "returned"
    /\ previewRequest[w] = parseWebhookPayload(Handed(payload[w])).value
    /\ previewRequest[w] = [contentId |-> Str("c1"), versionId |-> Str("v1"),
                            previewId |-> Str("p1"), updatedBy |-> Str("alice"),
                            contentHash |-> Str("h1")]

(***************************************************************************)
(* C10 as claimed: parseWebhookPayload fails with a ValidationError of     *)
(* status 400 whenever one of contentId, versionId, previewId, updatedBy,  *)
(* contentHash is absent or empty, and the MESSAGE of the error echoes the *)
(* five extracted values; otherwise it returns a PreviewRequest with five  *)
(* non-empty fields.  handleWebhook puts the error unchanged into its      *)
(* failure result and sends no request.                                    *)
(***************************************************************************)
C10_AsClaimed ==
    \A w \in Invocations :
        /\ payload[w] \in Incomplete =>
              LET r == parseWebhookPayload(Handed(payload[w])) IN
              /\ r.kind = "threw"
              /\ r.error.name = "CMPError"
              /\ r.error.statusCode = 400
              /\ r.error.message = Echo(Handed(payload[w]))
              /\ pc[w] = "done"
              /\ outcome[w] = Returned([success |-> FALSE, status |-> 400,
                                        error |-> r.error.message])
              /\ sent[w] = <<>>
        /\ payload[w] \in WellFormed => CompleteRequestOf(w)

(***************************************************************************)
(* C10 as amended: for a payload object lacking one of the five required   *)
(* values parseWebhookPayload fails with a CMPError of status 400 whose    *)
(* message is the fixed text "Missing required fields in webhook payload"  *)
(* and whose DETAILS echo the five extracted values; otherwise it returns  *)
(* a PreviewRequest with five non-empty fields.  handleWebhook returns the *)
(* error's message and status (not its details) in the failure result and  *)
(* sends no request.                                                       *)
(***************************************************************************)
C10_MissingFields ==
    \A w \in Invocations :
        /\ payload[w] \in Incomplete =>
              LET r == parseWebhookPayload(Handed(payload[w])) IN
              /\ r.kind = "threw"
              /\ r.error.name = "CMPError"
              /\ r.error.statusCode = 400
              /\ r.error.message = "Missing required fields in webhook payload"
              /\ r.error.details = Echo(Handed(payload[w]))
              /\ pc[w] = "done"
              /\ outcome[w] = Returned([success |-> FALSE, status |-> 400,
                                        error |-> "Missing required fields in webhook payload"])
              /\ sent[w] = <<>>
              /\ calls[w] = 0
        /\ payload[w] \in WellFormed => CompleteRequestOf(w)

\* handleWebhook was called with the payload that lacks content_hash
C10_Witness ==
    \E w \in Invocations : pc[w] = "done" /\ payload[w] = NoHashPayload

(***************************************************************************)
(* C11: every malformed or incomplete payload given to handleWebhook       *)
(* yields a failure result with status 400: the empty string, strings that *)
(* are not JSON, and every JSON text or pre-parsed value that lacks the    *)
(* expected shape, including values that are not objects at all (JSON      *)
(* null, null) and objects lacking data, assets or structured_contents.    *)
(***************************************************************************)
C11_Malformed400 ==
    \A w \in Invocations :
        (pc[w] = "done" /\ payload[w] \notin WellFormed)
        => /\ outcome[w].kind = "returned"
           /\ ~outcome[w].value.success
           /\ outcome[w].value.status = 400

(***************************************************************************)
(* Construction and use: a component is constructed from an arbitrary      *)
(* configuration, and whatever instance results is then used.              *)
(***************************************************************************)
Constructed(class, o) ==
    /\ built.outcome = Pending
    /\ built' = [class |-> class, outcome |-> o]
    /\ UNCHANGED <<config, urls, tokenCache, now, pc, payload, previewRequest,
                   accessToken, keyedPreviews, outcome, net, sent, replies, calls,
                   cleared, lastFetch, mine>>

\* new CMPOAuthClient(config)
NewOAuthClient ==
    /\ Constructed("CMPOAuthClient", NewCMPOAuthClient(config))
    /\ UNCHANGED previewTypes

\* new CMPClient(config)
NewClient ==
    /\ Constructed("CMPClient", NewCMPClient(config))
    /\ UNCHANGED previewTypes

\* new CMPWebhookHandler(config)
NewHandler ==
    LET o == NewCMPWebhookHandler(config) IN
    /\ Constructed("CMPWebhookHandler", o)
    /\ previewTypes' = IF o.kind = "returned" THEN o.value.previewTypes
                       ELSE previewTypes

\* an OAuth client exists: constructed directly, or inside a client or handler
HasOAuthClient == built.outcome.kind = "returned"
\* a webhook handler exists
HasHandler == HasOAuthClient /\ built.class = "CMPWebhookHandler"

\* content ids generatePreviewUrls is called with directly
ContentIds == {"c1", "abc123"}

\* handler.generatePreviewUrls(c) called directly
GeneratePreviewUrlsCall(c) ==
    /\ Len(urls) < MaxCalls
    /\ urls' = Append(urls, [contentId |-> c,
                             value |-> generatePreviewUrls(previewTypes, Str(c))])
    /\ UNCHANGED <<config, built, previewTypes, tokenCache, now, pc, payload,
                   previewRequest, accessToken, keyedPreviews, outcome, net, sent,
                   replies, calls, cleared, lastFetch, mine>>

\* the inputs of the construction-and-use specification
LifecyclePayloads == {GoodPayload, NoHashPayload}
LifecycleTokenResponses ==
    {HttpSuccess([access_token |-> "tokA", expires_in |-> 3600, token_type |-> "Bearer"]),
     HttpFailure(403, "forbidden")}
LifecycleApiResponses == {HttpSuccess(<<>>), HttpFailure(403, "forbidden")}

LifecycleInit ==
    /\ config \in Configs
    /\ built = [class |-> "", outcome |-> Pending]
    /\ urls = <<>>
    /\ previewTypes = <<>>
    /\ tokenCache = Null
    /\ now = 0
    /\ pc = [p \in Procs |-> "idle"]
    /\ payload = [w \in Invocations |-> Undefined]
    /\ previewRequest = [w \in Invocations |-> Undefined]
    /\ accessToken = [w \in Invocations |-> ""]
    /\ keyedPreviews = [w \in Invocations |-> <<>>]
    /\ outcome = [p \in Procs |-> Pending]
    /\ net = {}
    /\ sent = [p \in Procs |-> <<>>]
    /\ replies = [w \in Invocations |-> <<>>]
    /\ calls = [p \in Procs |-> 0]
    /\ cleared = FALSE
    /\ lastFetch = Null
    /\ mine = [d \in Callers |-> FALSE]

LifecycleNext ==
    \/ NewOAuthClient
    \/ NewClient
    \/ NewHandler
    \/ HasHandler /\ \E c \in ContentIds : GeneratePreviewUrlsCall(c)
    \/ HasHandler /\ \E w \in Sequential, p \in LifecyclePayloads : HandleWebhook(w, p)
    \/ HasOAuthClient /\ \E p \in Procs, resp \in LifecycleTokenResponses :
                            TokenResponse(p, resp)
    \/ HasHandler /\ \E w \in Sequential : AcknowledgeSend(w)
    \/ HasHandler /\ \E w \in Sequential, resp \in LifecycleApiResponses :
                        AcknowledgeResponse(w, resp)
    \/ HasHandler /\ \E w \in Sequential : SubmitCompletion(w)
    \/ HasHandler /\ \E w \in Sequential : CompleteSend(w)
    \/ HasHandler /\ \E w \in Sequential, resp \in LifecycleApiResponses :
                        CompleteResponse(w, resp)
    \/ HasOAuthClient /\ \E d \in Callers : GetAccessTokenCall(d)
    \/ HasOAuthClient /\ ClearCache

LifecycleSpec == LifecycleInit /\ [][LifecycleNext]_vars

(***************************************************************************)
(* C12: constructing CMPOAuthClient, CMPClient or CMPWebhookHandler with   *)
(* any of its required strings empty (clientId, clientSecret,              *)
(* authServerUrl; also apiBaseUrl for the client and the handler; also     *)
(* previewUrl for the handler) fails in the constructor with an error that *)
(* names an empty parameter; no instance results, so no operation runs and *)
(* no request is ever sent.  With all of them non-empty it succeeds.       *)
(***************************************************************************)
RequiredBy(class) ==
    {"clientId", "clientSecret", "authServerUrl"}
    \cup (IF class \in {"CMPClient", "CMPWebhookHandler"} THEN {"apiBaseUrl"} ELSE {})
    \cup (IF class = "CMPWebhookHandler" THEN {"previewUrl"} ELSE {})

C12_FailFast ==
    built.outcome # Pending =>
        LET empty == {k \in RequiredBy(built.class) : config[k] = ""} IN
        /\ built.outcome.kind = "threw" <=> empty # {}
        /\ built.outcome.kind = "threw" =>
              /\ built.outcome.error.isError
              /\ built.outcome.error.message \in {k \o " is required" : k \in empty}
              /\ "statusCode" \notin DOMAIN built.outcome.error
              /\ net = {}
              /\ \A p \in Procs : sent[p] = <<>> /\ calls[p] = 0 /\ pc[p] = "idle"
              /\ tokenCache = Null
              /\ urls = <<>>

\* a handler was constructed with only clientSecret empty, and that failed
C12_Witness ==
    /\ built.class = "CMPWebhookHandler"
    /\ built.outcome.kind = "threw"
    /\ config.clientSecret = ""
    /\ \A k \in {"clientId", "authServerUrl", "apiBaseUrl", "previewUrl"} : config[k] # ""

(***************************************************************************)
(* C13: when the token endpoint answers a token request with a non-success *)
(* HTTP status s, the getAccessToken() call that sent it fails with a      *)
(* CMPError "Failed to obtain access token" whose statusCode is s and      *)
(* whose details are the text of the response body, and the step writes    *)
(* nothing to the token cache.  A handleWebhook invocation whose client    *)
(* call made the request returns the failure result with status s.         *)
(***************************************************************************)
C13_TokenRefused ==
    [][\A p \in Procs :
          (IsTokenWait(pc[p]) /\ pc'[p] # pc[p]) =>
          \A resp \in {r \in TokenResponses : r.type = "http" /\ ~r.ok} :
          TokenResponse(p, resp)
          => /\ tokenCache' = tokenCache
             /\ lastFetch' = lastFetch
             /\ p \in Callers =>
                   outcome'[p] = Threw([name |-> "CMPError", isError |-> TRUE,
                                        message |-> "Failed to obtain access token",
                                        statusCode |-> resp.status,
                                        details |-> resp.text])
             /\ p \in Invocations =>
                   /\ pc'[p] = "done"
                   /\ outcome'[p] = Returned([success |-> FALSE,
                                              error |-> "Failed to obtain access token",
                                              status |-> resp.status])]_vars

\* a direct call was refused with 503 while the cache held an expired entry,
\* which is still there
C13_Witness ==
    \E d \in Callers :
        /\ outcome[d].kind = "threw"
        /\ outcome[d].error.name = "CMPError"
        /\ "statusCode" \in DOMAIN outcome[d].error
        /\ outcome[d].error.statusCode = 503
        /\ outcome[d].error.details = "forbidden"
        /\ tokenCache # Null

(***************************************************************************)
(* C14: when the token endpoint answers with success but the body lacks    *)
(* access_token or lacks expires_in, the getAccessToken() call fails with  *)
(* a CMPError that has no status code, and nothing is written to the token *)
(* cache; a handleWebhook invocation whose client call made the request    *)
(* returns a failure result with status 500.                               *)
(***************************************************************************)
C14_IncompleteTokenBody ==
    [][\A p \in Procs :
          (IsTokenWait(pc[p]) /\ pc'[p] # pc[p]) =>
          \A resp \in {r \in TokenResponses :
                          /\ r.type = "http" /\ r.ok /\ "json" \in DOMAIN r
                          /\ \/ "access_token" \notin DOMAIN r.json
                             \/ "expires_in" \notin DOMAIN r.json} :
          TokenResponse(p, resp)
          => /\ tokenCache' = tokenCache
             /\ lastFetch' = lastFetch
             /\ p \in Callers =>
                   /\ outcome'[p].kind = "threw"
                   /\ outcome'[p].error.name = "CMPError"
                   /\ "statusCode" \notin DOMAIN outcome'[p].error
                   /\ outcome'[p].error.message =
                         "Invalid token response: missing access_token or expires_in"
             /\ p \in Invocations =>
                   /\ pc'[p] = "done"
                   /\ outcome'[p].kind = "returned"
                   /\ ~outcome'[p].value.success
                   /\ outcome'[p].value.status = 500
                   /\ outcome'[p].value.error =
                         "Invalid token response: missing access_token or expires_in"]_vars

\* an invocation got a token body without expires_in (its only response) and
\* has returned status 500
C14_Witness ==
    \E w \in Invocations :
        /\ pc[w] = "done"
        /\ Len(replies[w]) = 1
        /\ replies[w][1].kind = "token" /\ replies[w][1].ok
        /\ outcome[w].kind = "returned"
        /\ outcome[w].value.status = 500
        /\ outcome[w].value.error =
              "Invalid token response: missing access_token or expires_in"

(***************************************************************************)
(* C15: for every success token response that contains an access token and *)
(* an expires_in value <= 300, the getAccessToken() call returns that      *)
(* token and caches an entry whose expiresAt = now + (expires_in - 300) s  *)
(* is not in the future, so hasCachedToken() is false afterwards; and the  *)
(* next getAccessToken() call that starts while that entry is the cache    *)
(* sends a new token request.                                              *)
(***************************************************************************)
C15_ShortLived ==
    [][\A p \in Procs :
          /\ (IsTokenWait(pc[p]) /\ pc'[p] # pc[p]) =>
             \A resp \in {r \in TokenResponses :
                             /\ r.type = "http" /\ r.ok /\ "json" \in DOMAIN r
                             /\ "access_token" \in DOMAIN r.json
                             /\ r.json.access_token # ""
                             /\ "expires_in" \in DOMAIN r.json
                             /\ r.json.expires_in <= 300} :
             TokenResponse(p, resp)
             => /\ p \in Callers => outcome'[p] = Returned(resp.json.access_token)
                /\ p \in Invocations => pc'[p] # "done"
                /\ tokenCache' # Null
                /\ tokenCache'.expiresAt <= now
                /\ ~hasCachedToken(tokenCache', now)
          /\ (/\ calls'[p] = calls[p] + 1
              /\ lastFetch # Null
              /\ lastFetch.expires_in <= 300)
             => \E r \in net' \ net : r.proc = p /\ r.kind = "token"]_vars

(***************************************************************************)
(* C16: how handleWebhook maps what its client calls throw.                *)
(***************************************************************************)
\* the failure result for a thrown value e, given the text reported for a
\* thrown value that is not an Error
MappedResult(e, fallback) ==
    IF e.name = "CMPError"
    THEN [success |-> FALSE, error |-> e.message,
          status |-> IF "statusCode" \in DOMAIN e THEN e.statusCode ELSE 500]
    ELSE [success |-> FALSE, status |-> 500,
          error |-> IF e.isError THEN e.message ELSE fallback]

\* every step in which a client call of an invocation throws ends the
\* invocation with the result Mapped gives for the thrown value
ErrorsMapped(Mapped(_)) ==
    \A w \in Invocations :
        (pc'[w] = "done" /\ pc[w] # "done" /\ pc[w] # "idle") =>
        /\ \A resp \in TokenResponses :
              (TokenResponse(w, resp) /\ TokenOutcome(resp).kind = "threw")
              => outcome'[w] = Returned(Mapped(TokenOutcome(resp).error))
        /\ \A resp \in ApiResponses :
              /\ LET o == ApiOutcome("Failed to acknowledge preview", resp) IN
                 (AcknowledgeResponse(w, resp) /\ o.kind = "threw")
                 => outcome'[w] = Returned(Mapped(o.error))
              /\ LET o == ApiOutcome("Failed to submit preview completion", resp) IN
                 (CompleteResponse(w, resp) /\ o.kind = "threw")
                 => outcome'[w] = Returned(Mapped(o.error))

MappedAsClaimed(e) == MappedResult(e, IF "value" \in DOMAIN e THEN e.value ELSE "")
MappedAsCoded(e) == MappedResult(e, "Unknown error")

(***************************************************************************)
(* C16 as claimed: an API error thrown by acknowledgePreview or            *)
(* submitPreviewCompletion gives a failure result with the error's status  *)
(* and message, with status 500 when the error carries no status; any      *)
(* other exception (transport failures included) gives status 500 with the *)
(* exception's message, or with the thrown value turned into a string if   *)
(* it carries no message.                                                  *)
(***************************************************************************)
C16_AsClaimed == [][ErrorsMapped(MappedAsClaimed)]_vars

(***************************************************************************)
(* C16 as amended: the same, except that a thrown value that is not an     *)
(* Error gives status 500 with the fixed text "Unknown error".             *)
(***************************************************************************)
C16_ErrorMapping == [][ErrorsMapped(MappedAsCoded)]_vars

\* a request of an invocation was rejected with a thrown value that is not an
\* Error, and the invocation returned "Unknown error"
C16_Witness ==
    \E w \in Invocations :
        /\ pc[w] = "done"
        /\ replies[w] # <<>>
        /\ ~Last(replies[w]).http
        /\ outcome[w] = Returned([success |-> FALSE, status |-> 500,
                                  error |-> "Unknown error"])

(***************************************************************************)
(* C17: generatePreviewUrls(contentId) returns exactly the mapping that    *)
(* sends each configured preview-type name to                              *)
(* "{previewUrl}/preview/{type}/{contentId}": with the default             *)
(* configuration exactly the 5 keys default, mobile, desktop, tablet,      *)
(* signage, and a single key for a type name configured twice; and two     *)
(* calls with the same contentId return identical mappings, whatever       *)
(* handleWebhook invocations, token requests and cache changes happen in   *)
(* between.  The mapping an invocation sends is the same one.              *)
(***************************************************************************)
ExpectedUrls(c) ==
    [k \in Range(previewTypes) |-> previewUrl \o "/preview/" \o k \o "/" \o c]

C17_PreviewUrls ==
    /\ \A i \in DOMAIN urls :
          /\ urls[i].value = ExpectedUrls(urls[i].contentId)
          /\ DOMAIN urls[i].value = Range(previewTypes)
          /\ "previewTypes" \notin DOMAIN config =>
                /\ DOMAIN urls[i].value =
                      {"default", "mobile", "desktop", "tablet", "signage"}
                /\ Cardinality(DOMAIN urls[i].value) = 5
                /\ urls[i].contentId = "abc123" =>
                      urls[i].value["signage"] =
                          "https://preview.example.com/preview/signage/abc123"
          /\ ("previewTypes" \in DOMAIN config
              /\ config.previewTypes = <<"mobile", "mobile", "web">>) =>
                /\ DOMAIN urls[i].value = {"mobile", "web"}
                /\ Cardinality(DOMAIN urls[i].value) = 2
          /\ \A j \in DOMAIN urls :
                urls[i].contentId = urls[j].contentId => urls[i].value = urls[j].value
    /\ \A w \in Invocations :
          pc[w] \in {"completeToken", "completeGotToken", "completeWait"} =>
              keyedPreviews[w] = ExpectedUrls("c1")

\* generatePreviewUrls was called twice with the same id on a handler whose
\* configuration names "mobile" twice; an invocation has ended and the token
\* cache has been filled meanwhile
C17_Witness ==
    /\ Len(urls) = 2
    /\ urls[1].contentId = urls[2].contentId
    /\ previewTypes = <<"mobile", "mobile", "web">>
    /\ pc["w1"] = "done"
    /\ tokenCache # Null

(***************************************************************************)
(* C18: no retry.  One handleWebhook invocation sends at most one          *)
(* acknowledge request and at most one complete request; and a non-success *)
(* response to either makes the client call throw a CMPError carrying that *)
(* response's status and body text, in a step that sends nothing, after    *)
(* which the invocation has ended.                                         *)
(***************************************************************************)
CountKind(q, kind) == Cardinality({i \in DOMAIN q : q[i].kind = kind})

C18_NoRetry ==
    [][\A w \in Invocations :
          /\ CountKind(sent'[w], "acknowledge") <= 1
          /\ CountKind(sent'[w], "complete") <= 1
          /\ (pc[w] \in {"ackWait", "completeWait"} /\ pc'[w] # pc[w]) =>
             \A resp \in {r \in ApiResponses : r.type = "http" /\ ~r.ok} :
             LET message == IF pc[w] = "ackWait" THEN "Failed to acknowledge preview"
                            ELSE "Failed to submit preview completion"
             IN
             (AcknowledgeResponse(w, resp) \/ CompleteResponse(w, resp))
             => /\ ApiOutcome(message, resp) =
                      Threw([name |-> "CMPError", isError |-> TRUE,
                             message |-> message,
                             statusCode |-> resp.status,
                             details |-> resp.text])
                /\ sent' = sent
                /\ InFlight(w) # {} /\ net' = net \ InFlight(w)
                /\ pc'[w] = "done"
                /\ outcome'[w] = Returned([success |-> FALSE, error |-> message,
                                           status |-> resp.status])
          /\ pc[w] = "done" => sent'[w] = sent[w] /\ pc'[w] = "done"]_vars

\* the complete request of an invocation was refused with 503; the
\* invocation has sent one acknowledge and one complete request and has ended
C18_Witness ==
    \E w \in Invocations :
        /\ pc[w] = "done"
        /\ replies[w] # <<>>
        /\ Last(replies[w]) = [kind |-> "complete", http |-> TRUE, ok |-> FALSE,
                               status |-> 503]
        /\ CountKind(sent[w], "acknowledge") = 1
        /\ CountKind(sent[w], "complete") = 1

(***************************************************************************)
(* C19: if the acknowledge request succeeded and the complete request is   *)
(* answered with a non-success status s, handleWebhook returns {success:   *)
(* false, status: s, error: "Failed to submit preview completion"}; the    *)
(* refused complete request stays the last request the invocation ever     *)
(* sent (nothing compensates or rolls back the acknowledgment), and the    *)
(* acknowledge request was sent once and answered with success.            *)
(***************************************************************************)
C19_CompleteRefused ==
    \A w \in Invocations :
        (/\ replies[w] # <<>>
         /\ \E k \in DOMAIN replies[w] :
               /\ replies[w][k].kind = "complete"
               /\ replies[w][k].http
               /\ ~replies[w][k].ok)
        => /\ pc[w] = "done"
           /\ Last(replies[w]).kind = "complete"
           /\ outcome[w] = Returned([success |-> FALSE,
                                     status |-> Last(replies[w]).status,
                                     error |-> "Failed to submit preview completion"])
           /\ \E k \in DOMAIN replies[w] :
                 replies[w][k].kind = "acknowledge" /\ replies[w][k].ok
           /\ Last(sent[w]).kind = "complete"
           /\ CountKind(sent[w], "complete") = 1
           /\ CountKind(sent[w], "acknowledge") = 1
           /\ InFlight(w) = {}

\* the acknowledge request got a success response and the complete request 403
C19_Witness ==
    \E w \in Invocations :
        /\ replies[w] # <<>>
        /\ Last(replies[w]) = [kind |-> "complete", http |-> TRUE, ok |-> FALSE,
                               status |-> 403]
        /\ \E k \in DOMAIN replies[w] :
              replies[w][k].kind = "acknowledge" /\ replies[w][k].ok

(***************************************************************************)
(* Concurrent use: two handleWebhook invocations and a direct caller share *)
(* the one OAuth client; every request succeeds.                           *)
(***************************************************************************)
ConcurrentTokenResponses ==
    {HttpSuccess([access_token |-> t, expires_in |-> 3600, token_type |-> "Bearer"]) :
        t \in Tokens}

ConcurrentNext ==
    \/ \E w \in Invocations : HandleWebhook(w, GoodPayload)
    \/ \E p \in Procs, resp \in ConcurrentTokenResponses : TokenResponse(p, resp)
    \/ \E w \in Invocations : AcknowledgeSend(w)
    \/ \E w \in Invocations : AcknowledgeResponse(w, HttpSuccess(<<>>))
    \/ \E w \in Invocations : SubmitCompletion(w)
    \/ \E w \in Invocations : CompleteSend(w)
    \/ \E w \in Invocations : CompleteResponse(w, HttpSuccess(<<>>))
    \/ \E d \in Callers : GetAccessTokenCall(d)
    \/ \E t \in Instants : Tick(t)

ConcurrentSpec == Init /\ [][ConcurrentNext]_vars

(***************************************************************************)
(* C20: concurrent refresh.  Every getAccessToken() call that starts while *)
(* the cache is absent or stale sends its own token request, also when     *)
(* token requests of other calls are in flight, so k such calls issue      *)
(* exactly k requests (one in flight per waiting call); each call returns  *)
(* the token of its own response; and every processed response overwrites  *)
(* the cache with its own entry, so that after all of them the cache holds *)
(* the entry of the response processed last.                               *)
(***************************************************************************)
C20_ConcurrentRefresh ==
    [][/\ \A p \in Procs :
             (calls'[p] = calls[p] + 1 /\ ~hasCachedToken(tokenCache, now))
             => /\ \E r \in net' \ net : r.proc = p /\ r.kind = "token"
                /\ Len(sent'[p]) = Len(sent[p]) + 1
       /\ \A p \in Procs :
             IsTokenWait(pc'[p]) <=>
                Cardinality({r \in net' : r.proc = p /\ r.kind = "token"}) = 1
       /\ Cardinality({r \in net' : r.kind = "token"})
             = Cardinality({p \in Procs : IsTokenWait(pc'[p])})
       /\ \A p \in Procs :
             (IsTokenWait(pc[p]) /\ pc'[p] # pc[p]) =>
             \A resp \in ConcurrentTokenResponses :
             TokenResponse(p, resp)
             => /\ p \in Callers => outcome'[p] = Returned(resp.json.access_token)
                /\ p \in Invocations => accessToken'[p] = resp.json.access_token
                /\ tokenCache' =
                      [accessToken |-> resp.json.access_token,
                       expiresAt |-> now + (resp.json.expires_in - 300) * 1000]]_vars

\* nothing was cached when the two invocations asked for a token at the start;
\* each has sent its own request and holds its own token, and the cache holds
\* the one processed last
C20_Witness ==
    /\ now = 0
    /\ accessToken["w1"] = "tokA"
    /\ accessToken["w2"] = "tokB"
    /\ Len(sent["w1"]) = 1 /\ sent["w1"][1].kind = "token"
    /\ Len(sent["w2"]) = 1 /\ sent["w2"][1].kind = "token"
    /\ tokenCache # Null
    /\ tokenCache.accessToken = "tokB"

(***************************************************************************)
(* C23: cache invariant.  Whenever a cache entry is present, its expiresAt *)
(* is the time at which the token response that wrote it was processed     *)
(* (the issuance time, as the client sees it) plus the expires_in of that  *)
(* response minus 300 seconds; and every step that writes the entry takes  *)
(* accessToken and expires_in from one and the same response.              *)
(***************************************************************************)
C23_CacheInvariant ==
    [][/\ tokenCache' # Null =>
             /\ lastFetch' # Null
             /\ tokenCache'.expiresAt =
                   lastFetch'.at + (lastFetch'.expires_in - 300) * 1000
             /\ tokenCache'.accessToken \in Tokens
       /\ \A p \in Procs :
             (IsTokenWait(pc[p]) /\ pc'[p] # pc[p]) =>
             \A resp \in {r \in TokenResponses :
                             r.type = "http" /\ r.ok /\ "json" \in DOMAIN r} :
             (TokenResponse(p, resp) /\ tokenCache' # tokenCache)
             => /\ lastFetch'.at = now
                /\ tokenCache' = [accessToken |-> resp.json.access_token,
                                  expiresAt |-> now + (resp.json.expires_in - 300) * 1000]
       /\ (tokenCache' # tokenCache /\ tokenCache' # Null) =>
             \E p \in Procs : IsTokenWait(pc[p]) /\ pc'[p] # pc[p]]_vars

\* an entry written 3299 s after the start by a response declaring 3600 s
C23_Witness ==
    /\ tokenCache # Null
    /\ lastFetch # Null
    /\ lastFetch.at = 3299 * 1000
    /\ lastFetch.expires_in = 3600
    /\ tokenCache.expiresAt = (3299 + 3300) * 1000

(***************************************************************************)
(* C27: if the token request made for the acknowledge step fails (with a   *)
(* non-success status s, or with a success body lacking access_token or    *)
(* expires_in), the invocation ends at once: neither the acknowledge nor   *)
(* the complete request is ever sent, and handleWebhook returns {success:  *)
(* false, error: "Failed to obtain access token", status: s}, or the       *)
(* "Invalid token response" message with status 500.  If the token request *)
(* made for the complete step fails, the same result is returned and the   *)
(* complete request is never sent.                                         *)
(***************************************************************************)
C27_TokenFailure ==
    [][\A w \in Invocations :
          /\ (pc[w] \in {"ackToken", "completeToken"} /\ pc'[w] # pc[w]) =>
             \A resp \in {r \in TokenResponses :
                             /\ r.type = "http"
                             /\ \/ ~r.ok
                                \/ /\ "json" \in DOMAIN r
                                   /\ \/ "access_token" \notin DOMAIN r.json
                                      \/ "expires_in" \notin DOMAIN r.json} :
             TokenResponse(w, resp)
             => /\ pc'[w] = "done"
                /\ outcome'[w] = Returned(
                      IF resp.ok
                      THEN [success |-> FALSE, status |-> 500,
                            error |-> "Invalid token response: missing access_token or expires_in"]
                      ELSE [success |-> FALSE, status |-> resp.status,
                            error |-> "Failed to obtain access token"])
                /\ "complete" \notin Kinds(sent'[w])
                /\ pc[w] = "ackToken" => "acknowledge" \notin Kinds(sent'[w])
                /\ InFlight(w) \subseteq {r \in net : r.kind = "token"}
                /\ \A r \in net' : r.proc # w
          /\ pc[w] = "done" => pc'[w] = "done" /\ sent'[w] = sent[w]]_vars

\* the token request for the complete step was refused with 503, after the
\* acknowledge request had succeeded; no complete request was sent
C27_Witness ==
    \E w \in Invocations :
        /\ pc[w] = "done"
        /\ Len(replies[w]) >= 2
        /\ Last(replies[w]) = [kind |-> "token", http |-> TRUE, ok |-> FALSE,
                               status |-> 503]
        /\ \E k \in DOMAIN replies[w] :
              replies[w][k].kind = "acknowledge" /\ replies[w][k].ok
        /\ "complete" \notin Kinds(sent[w])

(***************************************************************************)
(* C28: result well-formedness.  Every result handleWebhook returns is     *)
(* either a success result with status exactly 200, data present and no    *)
(* error, or a failure result with error present, no data and a status     *)
(* that is never 200: 400 when validation rejected the payload (empty      *)
(* text, text that is not JSON, required fields missing), the upstream's   *)
(* non-success status when the token, acknowledge or complete request was  *)
(* refused, and 500 in every other case.                                   *)
(***************************************************************************)
ValidationMessages ==
    {"Empty payload", "Invalid JSON payload", "Missing required fields in webhook payload"}

C28_ResultWellFormed ==
    \A w \in Invocations :
        pc[w] = "done" =>
        /\ outcome[w].kind = "returned"
        /\ LET v == outcome[w].value
               refused == /\ replies[w] # <<>>
                          /\ Last(replies[w]).http
                          /\ ~Last(replies[w]).ok
           IN
           /\ v.success \in BOOLEAN
           /\ v.success =>
                 /\ v.status = 200
                 /\ DOMAIN v = {"success", "status", "data"}
                 /\ DOMAIN v.data = {"contentId", "versionId", "previewId", "keyedPreviews"}
           /\ ~v.success =>
                 /\ DOMAIN v = {"success", "status", "error"}
                 /\ v.status # 200
                 /\ v.status = 400 <=> v.error \in ValidationMessages
                 /\ v.error \in ValidationMessages => sent[w] = <<>>
                 /\ refused => v.status = Last(replies[w]).status
                 /\ (~refused /\ v.error \notin ValidationMessages) => v.status = 500

\* an invocation has returned a failure result with the upstream's status 503
C28_Witness ==
    \E w \in Invocations :
        /\ pc[w] = "done"
        /\ outcome[w].kind = "returned"
        /\ ~outcome[w].value.success
        /\ outcome[w].value.status = 503

(***************************************************************************)
(* Racing invocations: two handleWebhook invocations share the handler,    *)
(* requests may be refused, and clearCache() may run at any time.          *)
(***************************************************************************)
RacePayloads == {GoodPayload, TwoContentsPayload}
RaceTokenResponses ==
    {HttpSuccess([access_token |-> t, expires_in |-> 3600, token_type |-> "Bearer"]) :
        t \in Tokens}
    \cup {HttpSuccess([access_token |-> "", expires_in |-> 3600, token_type |-> "Bearer"]),
          HttpFailure(503, "forbidden")}
RaceApiResponses == {HttpSuccess(<<>>), HttpFailure(403, "forbidden")}

RaceNext ==
    \/ \E w \in Invocations, p \in RacePayloads : HandleWebhook(w, p)
    \/ \E w \in Invocations, resp \in RaceTokenResponses : TokenResponse(w, resp)
    \/ \E w \in Invocations : AcknowledgeSend(w)
    \/ \E w \in Invocations, resp \in RaceApiResponses : AcknowledgeResponse(w, resp)
    \/ \E w \in Invocations : SubmitCompletion(w)
    \/ \E w \in Invocations : CompleteSend(w)
    \/ \E w \in Invocations, resp \in RaceApiResponses : CompleteResponse(w, resp)
    \/ ClearCache
    \/ \E t \in Instants : Tick(t)

RaceSpec == Init /\ [][RaceNext]_vars

(***************************************************************************)
(* C21: the token-cache race is not a correctness hazard.                  *)
(***************************************************************************)
\* the token responses that make getAccessToken return a token
GoodTokenResponses ==
    {r \in RaceTokenResponses : r.ok /\ r.json.access_token # ""}

\* the result of an invocation run alone on a payload whose first entry is
\* GoodContent, after the responses q (summaries, in order) to its own requests
AloneResult(q) ==
    LET l == Last(q)
    IN IF l.kind = "complete" /\ l.ok
       THEN [success |-> TRUE, status |-> 200,
             data |-> [contentId |-> Str("c1"), versionId |-> Str("v1"),
                       previewId |-> Str("p1"),
                       keyedPreviews |->
                           [k \in Range(DefaultPreviewTypes) |->
                               previewUrl \o "/preview/" \o k \o "/c1"]]]
       ELSE IF l.kind = "token" /\ l.ok
       THEN [success |-> FALSE, status |-> 500,
             error |-> "Invalid token response: missing access_token or expires_in"]
       ELSE [success |-> FALSE, status |-> l.status,
             error |-> CASE l.kind = "token" -> "Failed to obtain access token"
                         [] l.kind = "acknowledge" -> "Failed to acknowledge preview"
                         [] OTHER -> "Failed to submit preview completion"]

(***************************************************************************)
(* C21: under every interleaving of two handleWebhook invocations on one   *)
(* handler, with clearCache() calls and clock steps in between, every      *)
(* acknowledge and complete request that is sent carries a token that a    *)
(* successful token response returned (the invocation's own, or the one    *)
(* the cache held, which only such responses write); and the result of     *)
(* each invocation is the one determined by its own payload and the        *)
(* responses to its own requests, whatever the other invocation did.       *)
(***************************************************************************)
C21_RaceHarmless ==
    [][/\ \A r \in net' \ net :
             r.kind \in {"acknowledge", "complete"} =>
                /\ r.bearer \in Tokens
                /\ r.bearer = accessToken[r.proc]
       /\ \A w \in Invocations :
             accessToken'[w] # accessToken[w] =>
                \/ \E resp \in GoodTokenResponses :
                      /\ TokenResponse(w, resp)
                      /\ accessToken'[w] = resp.json.access_token
                \/ /\ tokenCache # Null
                   /\ now < tokenCache.expiresAt
                   /\ accessToken'[w] = tokenCache.accessToken
       /\ (tokenCache' # tokenCache /\ tokenCache' # Null) =>
             \E w \in Invocations, resp \in GoodTokenResponses :
                /\ TokenResponse(w, resp)
                /\ tokenCache'.accessToken = resp.json.access_token
       /\ \A w \in Invocations :
             (pc'[w] = "done" /\ pc[w] # "done") =>
                outcome'[w] = Returned(AloneResult(replies'[w]))]_vars

\* both invocations have succeeded, each with the token of its own response:
\* the second asked for a token before the response of the first was cached
C21_Witness ==
    /\ \A w \in Invocations : pc[w] = "done" /\ outcome[w].value.success
    /\ sent["w1"][2].bearer = "tokA"
    /\ sent["w2"][2].bearer = "tokB"
    /\ now = 0
    /\ ~cleared

(***************************************************************************)
(* C24: only the first entry of structured_contents is considered.         *)
(***************************************************************************)
\* a request without the process that sent it and without its bearer token
Outbound(r) == [kind |-> r.kind, url |-> r.url, body |-> r.body]

(***************************************************************************)
(* C24: two payloads that agree on data.preview_id and on                  *)
(* structured_contents[0] and differ in a later entry give the same        *)
(* extracted values; and two invocations called with them that have        *)
(* received the same responses so far have sent the same acknowledge and   *)
(* complete requests (same URL and body; the bearer token is whichever     *)
(* token the call obtained) and have the same result.                      *)
(***************************************************************************)
C24_FirstEntryOnly ==
    \A w, v \in Invocations :
        (/\ payload[w] = GoodPayload
         /\ payload[v] = TwoContentsPayload
         /\ replies[w] = replies[v]
         /\ pc[w] = pc[v])
        => /\ previewRequest[w] = previewRequest[v]
           /\ previewRequest[v].contentId = Str("c1")
           /\ previewRequest[v].contentHash = Str("h1")
           /\ Len(sent[w]) = Len(sent[v])
           /\ \A i \in DOMAIN sent[w] : Outbound(sent[w][i]) = Outbound(sent[v][i])
           /\ outcome[w] = outcome[v]
           /\ keyedPreviews[w] = keyedPreviews[v]

\* the invocation with one entry and the one with two have both succeeded
C24_Witness ==
    \E w, v \in Invocations :
        /\ payload[w] = GoodPayload
        /\ payload[v] = TwoContentsPayload
        /\ replies[w] = replies[v]
        /\ pc[w] = "done" /\ pc[v] = "done"
        /\ outcome[w].value.success
        /\ outcome[v].value.success

(***************************************************************************)
(* The token cache under every operation that can touch it: queries,       *)
(* direct calls, an invocation, failing and malformed token responses,     *)
(* clearCache() and the clock.                                             *)
(***************************************************************************)
\* the boolean a synchronous query returns
Answered(b) == [kind |-> "answered", answer |-> b]

\* oauthClient.hasCachedToken() called directly by d
HasCachedTokenCall(d) ==
    /\ pc[d] = "idle"
    /\ outcome' = [outcome EXCEPT ![d] = Answered(hasCachedToken(tokenCache, now))]
    /\ UNCHANGED <<config, built, urls, previewTypes, tokenCache, now, pc, payload,
                   previewRequest, accessToken, keyedPreviews, net, sent, replies,
                   calls, cleared, lastFetch, mine>>

CachePayloads == {GoodPayload, NoHashPayload, Str(""), Str("not json")}
CacheApiResponses == {HttpSuccess(<<>>), HttpFailure(403, "forbidden")}

CacheNext ==
    \/ \E w \in Sequential, p \in CachePayloads : HandleWebhook(w, p)
    \/ \E p \in Procs, resp \in TokenResponses : TokenResponse(p, resp)
    \/ \E w \in Sequential : AcknowledgeSend(w)
    \/ \E w \in Sequential, resp \in CacheApiResponses : AcknowledgeResponse(w, resp)
    \/ \E w \in Sequential : SubmitCompletion(w)
    \/ \E w \in Sequential : CompleteSend(w)
    \/ \E w \in Sequential, resp \in CacheApiResponses : CompleteResponse(w, resp)
    \/ \E d \in Callers : GetAccessTokenCall(d)
    \/ \E d \in Callers : HasCachedTokenCall(d)
    \/ ClearCache
    \/ \E t \in Instants : Tick(t)

CacheSpec == Init /\ [][CacheNext]_vars

\* the token responses that carry a non-empty access_token and a non-zero
\* expires_in under a success status, and all the others
SuccessfulFetches ==
    {r \in TokenResponses :
        /\ r.type = "http" /\ r.ok /\ "json" \in DOMAIN r
        /\ "access_token" \in DOMAIN r.json /\ r.json.access_token # ""
        /\ "expires_in" \in DOMAIN r.json /\ r.json.expires_in # 0}
FailedFetches == TokenResponses \ SuccessfulFetches

(***************************************************************************)
(* C22: the cache entry changes only through a successful token fetch,     *)
(* which sets it from that response, or through clearCache(), which        *)
(* removes it.  A hasCachedToken() query, a getAccessToken() call served   *)
(* from the cache, a token request that fails or answers with a malformed  *)
(* body, a handleWebhook call that fails validation and the passing of     *)
(* time, the expiry instant included, leave the entry exactly as it was:   *)
(* an expired entry stays in place until the next fetch overwrites it.     *)
(***************************************************************************)
C22_CacheFrame ==
    [][/\ tokenCache' # tokenCache =>
            \/ ClearCache
            \/ \E p \in Procs, resp \in SuccessfulFetches :
                  /\ TokenResponse(p, resp)
                  /\ tokenCache' =
                        [accessToken |-> resp.json.access_token,
                         expiresAt |-> now + (resp.json.expires_in - 300) * 1000]
       /\ (\E d \in Callers : HasCachedTokenCall(d)) => tokenCache' = tokenCache
       /\ (\E p \in Procs : calls'[p] # calls[p] /\ tokenCache # Null
                            /\ now < tokenCache.expiresAt)
             => tokenCache' = tokenCache /\ net' = net
       /\ \A p \in Procs :
             (IsTokenWait(pc[p]) /\ pc'[p] # pc[p]) =>
             \A resp \in FailedFetches :
                TokenResponse(p, resp) => tokenCache' = tokenCache
       /\ \A w \in Invocations :
             (pc[w] = "idle" /\ pc'[w] = "done") => tokenCache' = tokenCache
       /\ now' # now => tokenCache' = tokenCache
      ]_vars

\* an entry that has expired after its fetch is still in place after a query has answered
\* false and a handleWebhook call has failed validation
C22_Witness ==
    /\ tokenCache # Null
    /\ now >= tokenCache.expiresAt
    /\ lastFetch # Null /\ lastFetch.at < now
    /\ outcome["d1"] = Answered(FALSE)
    /\ pc["w1"] = "done" /\ sent["w1"] = <<>>

(***************************************************************************)
(* One invocation at a time: a single handleWebhook invocation, with the   *)
(* host free to use the OAuth client directly (getAccessToken, clearCache) *)
(* before, during and after it.  Every issued token lives 3600 seconds.    *)
(***************************************************************************)
SoloPayloads == {GoodPayload, NoHashPayload}
SoloTokenResponses ==
    {HttpSuccess([access_token |-> t, expires_in |-> 3600, token_type |-> "Bearer"]) :
        t \in Tokens}
    \cup {HttpFailure(503, "forbidden")}
SoloApiResponses == {HttpSuccess(<<>>), HttpFailure(403, "forbidden")}

SoloNext ==
    \/ \E w \in Sequential, p \in SoloPayloads : HandleWebhook(w, p)
    \/ \E p \in Procs, resp \in SoloTokenResponses : TokenResponse(p, resp)
    \/ \E w \in Sequential : AcknowledgeSend(w)
    \/ \E w \in Sequential, resp \in SoloApiResponses : AcknowledgeResponse(w, resp)
    \/ \E w \in Sequential : SubmitCompletion(w)
    \/ \E w \in Sequential : CompleteSend(w)
    \/ \E w \in Sequential, resp \in SoloApiResponses : CompleteResponse(w, resp)
    \/ \E d \in Callers : GetAccessTokenCall(d)
    \/ ClearCache
    \/ \E t \in Instants : Tick(t)

SoloSpec == Init /\ [][SoloNext]_vars

\* before this instant no token of 3600 seconds has reached its expiry less
\* the margin, whenever it was issued
FreshUntil == (3600 - 300) * 1000

\* the steps of an invocation that the two sentences of C26 have in common:
\* the first getAccessToken call sends a token request exactly when the cache
\* is absent or stale, an invocation that has sent no token request sends none
\* at its complete step either while the cache is valid, and the complete
\* request carries the token its getAccessToken call returned
SoloSteps(w) ==
    /\ (pc[w] = "idle" /\ pc'[w] \notin {"idle", "done"}) =>
          IF tokenCache # Null /\ now < tokenCache.expiresAt
          THEN sent'[w] = <<>> /\ accessToken'[w] = tokenCache.accessToken
          ELSE Len(sent'[w]) = 1 /\ sent'[w][1].kind = "token"
    /\ (pc[w] = "acknowledged" /\ pc'[w] # pc[w]
        /\ CountKind(sent[w], "token") = 0
        /\ tokenCache # Null /\ now < tokenCache.expiresAt) =>
          sent'[w] = sent[w] /\ accessToken'[w] = tokenCache.accessToken
    /\ (pc[w] = "completeGotToken" /\ pc'[w] # pc[w]) =>
          Last(sent'[w]).kind = "complete" /\ Last(sent'[w]).bearer = accessToken[w]

\* C26 as stated: after an invocation has fetched its token, its complete
\* step sends no second token request and keeps the bearer token of its
\* acknowledge request, whenever the token's expiry has not been reached
C26_AsClaimed ==
    [][\A w \in Sequential :
          /\ SoloSteps(w)
          /\ (pc[w] = "acknowledged" /\ pc'[w] # pc[w]
              /\ CountKind(sent[w], "token") = 1
              /\ now < FreshUntil) =>
                /\ sent'[w] = sent[w]
                /\ pc'[w] = "completeGotToken"
                /\ accessToken'[w] = sent[w][2].bearer
      ]_vars

(***************************************************************************)
(* C26: in an invocation that starts with an absent or stale cache, with   *)
(* no concurrent invocation and with the entry its own fetch stored still  *)
(* in the cache at the complete step (no clearCache() call and no other    *)
(* fetch has replaced it) and not yet expired, exactly one token request   *)
(* is issued: the complete call takes its token from the cache and carries *)
(* the same bearer token as the acknowledge call.  When the cache is valid *)
(* at both getAccessToken calls of the invocation, no token request is     *)
(* issued at all.                                                          *)
(***************************************************************************)
C26_SingleFetch ==
    [][\A w \in Sequential :
          /\ SoloSteps(w)
          /\ (pc[w] = "acknowledged" /\ pc'[w] # pc[w]
              /\ CountKind(sent[w], "token") = 1
              /\ tokenCache # Null /\ now < tokenCache.expiresAt
              /\ \A d \in Callers : ~mine[d]) =>
                /\ sent'[w] = sent[w]
                /\ CountKind(sent'[w], "token") = 1
                /\ pc'[w] = "completeGotToken"
                /\ accessToken'[w] = tokenCache.accessToken
                /\ accessToken'[w] = sent[w][2].bearer
      ]_vars

\* an invocation that started with an absent or stale cache has succeeded
\* with one token request, its acknowledge and complete requests carrying the
\* same bearer token, while the clock advanced between start and end
C26_Witness ==
    /\ pc["w1"] = "done"
    /\ outcome["w1"].kind = "returned" /\ outcome["w1"].value.success
    /\ Len(sent["w1"]) = 3
    /\ sent["w1"][1].kind = "token"
    /\ sent["w1"][2].kind = "acknowledge" /\ sent["w1"][3].kind = "complete"
    /\ sent["w1"][2].bearer = sent["w1"][3].bearer
    /\ sent["w1"][3].bearer \in Tokens
    /\ lastFetch # Null /\ lastFetch.at < now
    /\ \A d \in Callers : ~mine[d]

(***************************************************************************)
(* Progress of an invocation.  A continuation of an async function runs    *)
(* once the promise it awaits has settled: the steps that follow a         *)
(* response are weakly fair.  Nothing obliges a request to complete.       *)
(***************************************************************************)
LivePayloads == {GoodPayload, NoHashPayload}
LiveTokenResponses ==
    {HttpSuccess([access_token |-> "tokA", expires_in |-> 3600, token_type |-> "Bearer"]),
     HttpFailure(503, "forbidden"), Rejected(ThrownString)}
LiveApiResponses == {HttpSuccess(<<>>), HttpFailure(403, "forbidden"), Rejected(ThrownString)}

\* the continuations that run without waiting for the network
Continue ==
    \E w \in Sequential : AcknowledgeSend(w) \/ SubmitCompletion(w) \/ CompleteSend(w)

LiveNext ==
    \/ \E w \in Sequential, p \in LivePayloads : HandleWebhook(w, p)
    \/ \E w \in Sequential, resp \in LiveTokenResponses : TokenResponse(w, resp)
    \/ \E w \in Sequential, resp \in LiveApiResponses : AcknowledgeResponse(w, resp)
    \/ \E w \in Sequential, resp \in LiveApiResponses : CompleteResponse(w, resp)
    \/ Continue
    \/ ClearCache
    \/ \E t \in Instants : Tick(t)

LiveSpec == Init /\ [][LiveNext]_vars /\ WF_vars(Continue)

(***************************************************************************)
(* C25: every handleWebhook invocation eventually returns a result,        *)
(* provided each HTTP request it issues eventually completes with a        *)
(* response or a transport error.  There is no timeout: an invocation      *)
(* whose request never completes never returns, however far the clock      *)
(* advances.                                                               *)
(***************************************************************************)
C25_Terminates ==
    \A w \in Sequential :
       /\ ([]<>(InFlight(w) = {})) =>
             ((pc[w] # "idle") ~> (pc[w] = "done" /\ outcome[w].kind = "returned"))
       /\ (<>[](InFlight(w) # {})) => [](pc[w] # "done")

\* an invocation has returned after its token and acknowledge requests
\* succeeded and its complete request was rejected with a thrown value
C25_Witness ==
    /\ pc["w1"] = "done"
    /\ outcome["w1"].kind = "returned"
    /\ Len(replies["w1"]) = 3
    /\ ~Last(replies["w1"]).http
    /\ InFlight("w1") = {}

====
